---- MODULE Spec2Model ----
(***************************************************************************)
(* The in-memory book collection of src/flask.ts (a Flask-RESTful service) *)
(* and the client of src/fronted.ts that exercises it.                     *)
(*                                                                         *)
(* A book is a Python dict, modelled as a function from field names to     *)
(* values; a JSON request body is such a mapping too.  The collection is   *)
(* the module-level list `books`.  jsonify() serialises a dict at the time *)
(* of the call and the client's response.json() parses it back: for the    *)
(* values used here (integers and strings) the parsed mapping equals the   *)
(* dict as it was when serialised, so a response body is that mapping, a   *)
(* snapshot that later mutation of the dict does not reach.                *)
(***************************************************************************)
EXTENDS Integers, Sequences, FiniteSets, TLC

VARIABLES
    books,          \* flask.ts:8   the global list
    req,            \* the request the server handled last
    resp,           \* its response: [status, body]
    repeated,       \* whether that request was the same as the one before it
    pc,             \* fronted.ts:44 position of main()
    c_books,        \* fronted.ts:48 const books
    newBook,        \* fronted.ts:52
    book,           \* fronted.ts:56
    updatedBook,    \* fronted.ts:60
    updatedBooks,   \* fronted.ts:68
    atomic,         \* whether the host runs one handler at a time
    tpc,            \* per handler thread: position in the handler
    treq,           \* per handler thread: its request
    tloc,           \* per handler thread: the handler's local (new_book / the rebuilt list)
    tresp,          \* per handler thread: its last response
    log             \* requests in the order their handlers started

clientVars == <<pc, c_books, newBook, book, updatedBook, updatedBooks>>
concVars == <<atomic, tpc, treq, tloc, tresp, log>>
vars == <<books, req, resp, repeated, pc, c_books, newBook, book, updatedBook, updatedBooks,
          atomic, tpc, treq, tloc, tresp, log>>

-----------------------------------------------------------------------------
\* Bounds of the model.

\* Creates are accepted while the collection is shorter than this.
MaxLen == 3
\* Requests handled in all by the handler threads of the interleaved model.
MaxReq == 4

-----------------------------------------------------------------------------
\* Values.

\* <int:book_id> admits the non-negative integers only.  Create assigns ids
\* from 1 to MaxLen here, so 0 is an id that no record carries.
Ids == 0..MaxLen

Seed == << [id |-> 1, title |-> "To Kill a Mockingbird", author |-> "Harper Lee"],
           [id |-> 2, title |-> "1984", author |-> "George Orwell"] >>

Gatsby == [title |-> "The Great Gatsby", author |-> "F. Scott Fitzgerald"]
GatsbyUpdated == [title |-> "The Great Gatsby (Updated)"]

\* Bodies of POST /books: the client's, and one that carries an id of its own.
CreateBodies == { Gatsby, [id |-> 1, title |-> "The Great Gatsby"] }
\* Bodies of PUT /books/<id>: the client's, and one that carries an id and a new key.
UpdateBodies ==
    { GatsbyUpdated, [id |-> 1, title |-> "The Great Gatsby (Updated)", year |-> 1925] }

NotFound == [status |-> 404, body |-> [message |-> "Book not found"]]
NoRequest == [op |-> "none"]
NoResponse == [status |-> 0, body |-> ""]
Undefined == "undefined"

-----------------------------------------------------------------------------
\* The handlers, as functions of the list and the request: each gives the
\* list afterwards and the response.

\* dict.update(): every key of upd takes upd's value, the others keep theirs.
DictUpdate(d, upd) ==
    [k \in (DOMAIN d) \cup (DOMAIN upd) |-> IF k \in DOMAIN upd THEN upd[k] ELSE d[k]]

\* new_book["id"] = n
SetId(d, n) == DictUpdate(d, [id |-> n])

\* A variant that forgets the + 1.
NewBookId_Len(bs) == Len(bs)

\* len(books) + 1
NewBookId(bs) == Len(bs) + 1

\* next((book for book in books if book["id"] == book_id), None): the index of
\* the first match from position i on, 0 for None.
RECURSIVE FirstMatch(_, _, _)
FirstMatch(bs, book_id, i) ==
    IF i > Len(bs) THEN 0
    ELSE IF bs[i].id = book_id THEN i
    ELSE FirstMatch(bs, book_id, i + 1)

\* `if book:` a dict is true unless it is empty; None is false.
Truthy(bs, i) == i # 0 /\ DOMAIN bs[i] # {}

\* [book for book in books if book["id"] != book_id]
RECURSIVE Rebuild(_, _, _)
Rebuild(bs, book_id, i) ==
    IF i > Len(bs) THEN << >>
    ELSE IF bs[i].id # book_id THEN <<bs[i]>> \o Rebuild(bs, book_id, i + 1)
    ELSE Rebuild(bs, book_id, i + 1)

BooksGet(bs) == [books |-> bs, resp |-> [status |-> 200, body |-> bs]]

\* A variant that keeps the id the caller sent.
BooksPost_KeepsCallerId(bs, body) ==
    LET new_book == IF "id" \in DOMAIN body THEN body ELSE SetId(body, NewBookId(bs))
    IN  [books |-> Append(bs, new_book), resp |-> [status |-> 201, body |-> new_book]]

\* A variant that inserts at the front.
BooksPost_Prepend(bs, body) ==
    LET new_book == SetId(body, NewBookId(bs))
    IN  [books |-> <<new_book>> \o bs, resp |-> [status |-> 201, body |-> new_book]]

BooksPost(bs, body) ==
    LET new_book == SetId(body, NewBookId(bs))
    IN  [books |-> Append(bs, new_book), resp |-> [status |-> 201, body |-> new_book]]

\* A variant that answers with the last match.
BookGet_LastMatch(bs, book_id) ==
    LET m == {i \in 1..Len(bs) : bs[i].id = book_id}
    IN  IF m # {}
        THEN [books |-> bs, resp |-> [status |-> 200, body |-> bs[CHOOSE i \in m : \A j \in m : j <= i]]]
        ELSE [books |-> bs, resp |-> NotFound]

BookGet(bs, book_id) ==
    LET i == FirstMatch(bs, book_id, 1)
    IN  IF Truthy(bs, i)
        THEN [books |-> bs, resp |-> [status |-> 200, body |-> bs[i]]]
        ELSE [books |-> bs, resp |-> NotFound]

\* A variant that replaces the record by the body.
BookPut_Replace(bs, book_id, body) ==
    LET i == FirstMatch(bs, book_id, 1)
    IN  IF Truthy(bs, i)
        THEN [books |-> [bs EXCEPT ![i] = body], resp |-> [status |-> 200, body |-> body]]
        ELSE [books |-> bs, resp |-> NotFound]

\* A variant that stores the body as a new record when none matches.
BookPut_Upsert(bs, book_id, body) ==
    LET i == FirstMatch(bs, book_id, 1)
    IN  IF Truthy(bs, i)
        THEN LET merged == DictUpdate(bs[i], body)
             IN  [books |-> [bs EXCEPT ![i] = merged],
                  resp |-> [status |-> 200, body |-> merged]]
        ELSE [books |-> Append(bs, SetId(body, book_id)),
              resp |-> [status |-> 200, body |-> SetId(body, book_id)]]

BookPut(bs, book_id, body) ==
    LET i == FirstMatch(bs, book_id, 1)
    IN  IF Truthy(bs, i)
        THEN LET merged == DictUpdate(bs[i], body)
             IN  [books |-> [bs EXCEPT ![i] = merged],
                  resp |-> [status |-> 200, body |-> merged]]
        ELSE [books |-> bs, resp |-> NotFound]

\* A variant that removes the first match only.
BookDelete_FirstOnly(bs, book_id) ==
    LET i == FirstMatch(bs, book_id, 1)
    IN  [books |-> IF i = 0 THEN bs ELSE SubSeq(bs, 1, i - 1) \o SubSeq(bs, i + 1, Len(bs)),
         resp |-> [status |-> 204, body |-> ""]]

\* A variant that answers 404 when no record matched.
BookDelete_NotFound(bs, book_id) ==
    IF FirstMatch(bs, book_id, 1) = 0
    THEN [books |-> bs, resp |-> NotFound]
    ELSE [books |-> Rebuild(bs, book_id, 1), resp |-> [status |-> 204, body |-> ""]]

BookDelete(bs, book_id) ==
    [books |-> Rebuild(bs, book_id, 1), resp |-> [status |-> 204, body |-> ""]]

\* api.add_resource: the routes.
Dispatch(bs, r) ==
    CASE r.op = "list"   -> BooksGet(bs)
      [] r.op = "create" -> BooksPost(bs, r.body)
      [] r.op = "get"    -> BookGet(bs, r.id)
      [] r.op = "update" -> BookPut(bs, r.id, r.body)
      [] r.op = "delete" -> BookDelete(bs, r.id)

\* The server handles request r, one handler from start to end.
Serve(r) ==
    /\ req' = r
    /\ repeated' = (r = req)
    /\ books' = Dispatch(books, r).books
    /\ resp' = Dispatch(books, r).resp

-----------------------------------------------------------------------------
\* Requests of other clients (curl, Postman), between runs of main().

ReqList ==
    /\ pc = "start"
    /\ Serve([op |-> "list"])
    /\ UNCHANGED <<clientVars, concVars>>

ReqCreate ==
    /\ pc = "start"
    /\ Len(books) < MaxLen
    /\ \E body \in CreateBodies : Serve([op |-> "create", body |-> body])
    /\ UNCHANGED <<clientVars, concVars>>

ReqGet ==
    /\ pc = "start"
    /\ \E id \in Ids : Serve([op |-> "get", id |-> id])
    /\ UNCHANGED <<clientVars, concVars>>

ReqUpdate ==
    /\ pc = "start"
    /\ \E id \in Ids, body \in UpdateBodies :
          Serve([op |-> "update", id |-> id, body |-> body])
    /\ UNCHANGED <<clientVars, concVars>>

ReqDelete ==
    /\ pc = "start"
    /\ \E id \in Ids : Serve([op |-> "delete", id |-> id])
    /\ UNCHANGED <<clientVars, concVars>>

-----------------------------------------------------------------------------
\* main() of the client: six calls, one after the other.

MainGetBooks ==
    /\ pc = "start"
    /\ Serve([op |-> "list"])
    /\ c_books' = resp'.body
    /\ pc' = "createBook"
    /\ UNCHANGED <<newBook, book, updatedBook, updatedBooks, concVars>>

MainCreateBook ==
    /\ pc = "createBook"
    /\ Len(books) < MaxLen
    /\ Serve([op |-> "create", body |-> Gatsby])
    /\ newBook' = resp'.body
    /\ pc' = "getBook"
    /\ UNCHANGED <<c_books, book, updatedBook, updatedBooks, concVars>>

MainGetBook ==
    /\ pc = "getBook"
    /\ Serve([op |-> "get", id |-> newBook.id])
    /\ book' = resp'.body
    /\ pc' = "updateBook"
    /\ UNCHANGED <<c_books, newBook, updatedBook, updatedBooks, concVars>>

MainUpdateBook ==
    /\ pc = "updateBook"
    /\ Serve([op |-> "update", id |-> newBook.id, body |-> GatsbyUpdated])
    /\ updatedBook' = resp'.body
    /\ pc' = "deleteBook"
    /\ UNCHANGED <<c_books, newBook, book, updatedBooks, concVars>>

MainDeleteBook ==
    /\ pc = "deleteBook"
    /\ Serve([op |-> "delete", id |-> newBook.id])
    /\ pc' = "getBooksAgain"
    /\ UNCHANGED <<c_books, newBook, book, updatedBook, updatedBooks, concVars>>

MainGetBooksAgain ==
    /\ pc = "getBooksAgain"
    /\ Serve([op |-> "list"])
    /\ updatedBooks' = resp'.body
    /\ pc' = "done"
    /\ UNCHANGED <<c_books, newBook, book, updatedBook, concVars>>

\* main() returns and the process ends; the script can be run again.
MainExit ==
    /\ pc = "done"
    /\ pc' = "start"
    /\ c_books' = Undefined /\ newBook' = Undefined /\ book' = Undefined
    /\ updatedBook' = Undefined /\ updatedBooks' = Undefined
    /\ UNCHANGED <<books, req, resp, repeated, concVars>>

-----------------------------------------------------------------------------
Threads == {1, 2}

InitClient ==
    /\ pc = "start"
    /\ c_books = Undefined /\ newBook = Undefined /\ book = Undefined
    /\ updatedBook = Undefined /\ updatedBooks = Undefined

InitThreads ==
    /\ tpc = [t \in Threads |-> "idle"]
    /\ treq = [t \in Threads |-> NoRequest]
    /\ tloc = [t \in Threads |-> Undefined]
    /\ tresp = [t \in Threads |-> NoResponse]
    /\ log = << >>

Init ==
    /\ books = Seed
    /\ req = NoRequest
    /\ resp = NoResponse
    /\ repeated = FALSE
    /\ InitClient
    /\ atomic = TRUE
    /\ InitThreads

Next ==
    \/ ReqList
    \/ ReqCreate
    \/ ReqGet
    \/ ReqUpdate
    \/ ReqDelete
    \/ MainGetBooks
    \/ MainCreateBook
    \/ MainGetBook
    \/ MainUpdateBook
    \/ MainDeleteBook
    \/ MainGetBooksAgain
    \/ MainExit

Spec == Init /\ [][Next]_vars

-----------------------------------------------------------------------------
\* Two requests in flight at once.  app.run() serves each request on a
\* thread of its own and the handlers take no lock, so the statements of two
\* handlers interleave; with `atomic` the host runs one handler at a time.
\* Only POST /books and DELETE /books/<id> run here.

\* Ids of the DELETE requests here: one that no record carries (create assigns
\* ids from 1), a seed record's, and the id the first create assigns.
ConcIds == {0, 1, NewBookId(Seed)}

ConcRequests ==
    { [op |-> "create", body |-> Gatsby] } \cup { [op |-> "delete", id |-> id] : id \in ConcIds }

\* A handler may start: always when handlers interleave, and otherwise only
\* when no other handler is running.
MayStart(t) == ~atomic \/ \A u \in Threads \ {t} : tpc[u] = "idle"

Begin(t) ==
    /\ tpc[t] = "idle"
    /\ Len(log) < MaxReq
    /\ MayStart(t)
    /\ \E r \in ConcRequests :
          /\ treq' = [treq EXCEPT ![t] = r]
          /\ log' = Append(log, r)
          /\ tpc' = [tpc EXCEPT ![t] = IF r.op = "create" THEN "post_id" ELSE "delete_scan"]
    /\ UNCHANGED <<books, req, resp, repeated, clientVars, atomic, tloc, tresp>>

\* flask.ts:18-19  new_book = request.get_json(); new_book["id"] = len(books) + 1
PostSetId(t) ==
    /\ tpc[t] = "post_id"
    /\ tloc' = [tloc EXCEPT ![t] = SetId(treq[t].body, NewBookId(books))]
    /\ tpc' = [tpc EXCEPT ![t] = "post_append"]
    /\ UNCHANGED <<books, req, resp, repeated, clientVars, atomic, treq, tresp, log>>

\* flask.ts:20  books.append(new_book)
PostAppend(t) ==
    /\ tpc[t] = "post_append"
    /\ books' = Append(books, tloc[t])
    /\ tpc' = [tpc EXCEPT ![t] = "post_return"]
    /\ UNCHANGED <<req, resp, repeated, clientVars, atomic, treq, tloc, tresp, log>>

\* flask.ts:21  return jsonify(new_book), 201
PostReturn(t) ==
    /\ tpc[t] = "post_return"
    /\ tresp' = [tresp EXCEPT ![t] = [status |-> 201, body |-> tloc[t]]]
    /\ tpc' = [tpc EXCEPT ![t] = "idle"]
    /\ tloc' = [tloc EXCEPT ![t] = Undefined]
    /\ UNCHANGED <<books, req, resp, repeated, clientVars, atomic, treq, log>>

\* flask.ts:40  the list comprehension, over the list as it is now
DeleteScan(t) ==
    /\ tpc[t] = "delete_scan"
    /\ tloc' = [tloc EXCEPT ![t] = Rebuild(books, treq[t].id, 1)]
    /\ tpc' = [tpc EXCEPT ![t] = "delete_rebind"]
    /\ UNCHANGED <<books, req, resp, repeated, clientVars, atomic, treq, tresp, log>>

\* flask.ts:40  books = ..., the global rebound to the rebuilt list
DeleteRebind(t) ==
    /\ tpc[t] = "delete_rebind"
    /\ books' = tloc[t]
    /\ tpc' = [tpc EXCEPT ![t] = "delete_return"]
    /\ UNCHANGED <<req, resp, repeated, clientVars, atomic, treq, tloc, tresp, log>>

\* flask.ts:41  return "", 204
DeleteReturn(t) ==
    /\ tpc[t] = "delete_return"
    /\ tresp' = [tresp EXCEPT ![t] = [status |-> 204, body |-> ""]]
    /\ tpc' = [tpc EXCEPT ![t] = "idle"]
    /\ tloc' = [tloc EXCEPT ![t] = Undefined]
    /\ UNCHANGED <<books, req, resp, repeated, clientVars, atomic, treq, log>>

InitConc ==
    /\ books = Seed
    /\ req = NoRequest
    /\ resp = NoResponse
    /\ repeated = FALSE
    /\ InitClient
    /\ atomic \in BOOLEAN
    /\ InitThreads

NextConc ==
    \E t \in Threads :
        \/ Begin(t)
        \/ PostSetId(t)
        \/ PostAppend(t)
        \/ PostReturn(t)
        \/ DeleteScan(t)
        \/ DeleteRebind(t)
        \/ DeleteReturn(t)

SpecConc == InitConc /\ [][NextConc]_vars

-----------------------------------------------------------------------------
\* What the properties below speak of.

HasId(bs, id) == \E i \in 1..Len(bs) : bs[i].id = id

\* The position of the first record with that id, in insertion order.
FirstWithId(bs, id) ==
    CHOOSE i \in 1..Len(bs) : bs[i].id = id /\ \A j \in 1..(i - 1) : bs[j].id # id

UniqueIds(bs) == \A i, j \in 1..Len(bs) : i # j => bs[i].id # bs[j].id

\* s can be had from t by dropping elements, the rest keeping their order.
RECURSIVE IsSubseq(_, _)
IsSubseq(s, t) ==
    IF s = << >> THEN TRUE
    ELSE IF t = << >> THEN FALSE
    ELSE IF Head(s) = Head(t) THEN IsSubseq(Tail(s), Tail(t))
    ELSE IsSubseq(s, Tail(t))

-----------------------------------------------------------------------------
\* C1: no two records of the collection have the same id, in every state
\* reached from the seed by create, update and delete calls.
C1_UniqueIds == UniqueIds(books)

\* C2: a create answers 201, stores a record whose id is the length before
\* the call plus one whatever id the body carried, with the body's other
\* fields as sent, appends it as the last element, leaves the earlier
\* records as they were and returns the stored record.
C2_CreateAppends ==
    [][ req'.op = "create" =>
          /\ resp'.status = 201
          /\ Len(books') = Len(books) + 1
          /\ SubSeq(books', 1, Len(books)) = books
          /\ LET r == books'[Len(books')]
             IN  /\ r.id = Len(books) + 1
                 /\ DOMAIN r = (DOMAIN req'.body) \cup {"id"}
                 /\ \A k \in (DOMAIN req'.body) \ {"id"} : r[k] = req'.body[k]
                 /\ resp'.body = r ]_vars

\* A create whose body carried an id has been answered with another id.
C2_Witness ==
    /\ req.op = "create"
    /\ "id" \in DOMAIN req.body
    /\ resp.status = 201
    /\ resp.body.id # req.body.id
    /\ books[Len(books)] = resp.body

\* C3: a get answers with the first record, in insertion order, whose id is
\* the one asked for, and answers 404 "Book not found" exactly when no record
\* has that id.
C3_GetFirstMatchOrNotFound ==
    [][ req'.op = "get" =>
          /\ HasId(books, req'.id) =>
                /\ resp'.status = 200
                /\ resp'.body = books[FirstWithId(books, req'.id)]
          /\ ~HasId(books, req'.id) => resp' = NotFound
          /\ (resp'.status = 404) <=> ~HasId(books, req'.id) ]_vars

\* A get has been answered with the first of two records that share the id.
C3_Witness ==
    /\ req.op = "get"
    /\ resp.status = 200
    /\ \E i, j \in 1..Len(books) :
          /\ i < j
          /\ books[i].id = req.id /\ books[j].id = req.id
          /\ books[i] # books[j]
          /\ resp.body = books[i]

\* C4: an update of an id that matches merges the body into the first
\* matching record only: every key of the body takes the body's value (id
\* too), every other key of the record keeps its value, new keys are added;
\* the record keeps its position, the other records are unchanged, and the
\* answer is the merged record.
C4_UpdateMerges ==
    [][ (req'.op = "update" /\ HasId(books, req'.id)) =>
          LET i == FirstWithId(books, req'.id)
              body == req'.body
          IN  /\ resp'.status = 200
              /\ Len(books') = Len(books)
              /\ \A j \in 1..Len(books) : j # i => books'[j] = books[j]
              /\ DOMAIN books'[i] = (DOMAIN books[i]) \cup (DOMAIN body)
              /\ \A k \in DOMAIN body : books'[i][k] = body[k]
              /\ \A k \in (DOMAIN books[i]) \ (DOMAIN body) : books'[i][k] = books[i][k]
              /\ resp'.body = books'[i] ]_vars

\* An update of record 2 has overwritten its id and title and added a key,
\* and kept the author.
C4_Witness ==
    /\ req.op = "update"
    /\ req.id = 2
    /\ "id" \in DOMAIN req.body
    /\ resp.status = 200
    /\ resp.body = [id |-> 1, title |-> "The Great Gatsby (Updated)",
                    author |-> "George Orwell", year |-> 1925]
    /\ Len(books) >= 2
    /\ books[2] = resp.body
    /\ books[1] = Seed[1]

\* C5: a delete answers 204 and removes every record whose id is the one
\* asked for and no other record; a get of that id right after it answers
\* 404.
C5_DeleteRemovesAll ==
    [][ /\ req'.op = "delete" =>
            /\ resp'.status = 204
            /\ books' = SelectSeq(books, LAMBDA b : b.id # req'.id)
            /\ ~HasId(books', req'.id)
        /\ (req.op = "delete" /\ req'.op = "get" /\ req'.id = req.id) => resp' = NotFound
      ]_vars

\* main() has deleted the id of the book it created, and with it a record
\* that was there before: the list is shorter than it was before the create.
C5_Witness ==
    /\ pc = "getBooksAgain"
    /\ req.op = "delete"
    /\ req.id = newBook.id
    /\ resp.status = 204
    /\ ~HasId(books, newBook.id)
    /\ Len(books) < Len(c_books)

\* C6: a delete that repeats the delete before it leaves the collection as
\* that one left it, and a delete of an id that no record has leaves the
\* collection unchanged; both answer 204.
C6_DeleteIdempotent ==
    [][ /\ (req.op = "delete" /\ req' = req) => (books' = books /\ resp'.status = 204)
        /\ (req'.op = "delete" /\ ~HasId(books, req'.id)) =>
              (books' = books /\ resp'.status = 204) ]_vars

\* The same delete has been handled twice in a row.
C6_Witness ==
    /\ req.op = "delete"
    /\ repeated
    /\ resp.status = 204
    /\ Len(books) < Len(Seed)

\* C7: when main() is done, the list it got last is the list it got first:
\* the create, get, update and delete of the new book's id in between have
\* restored the collection.
C7_CreateDeleteRestores == pc = "done" => updatedBooks = c_books

\* C8: every operation keeps insertion order: a list answers with the
\* records in the order of the collection, a create leaves the old list as a
\* prefix, an update moves nothing, and what a delete leaves is in the order
\* it had.
C8_OrderPreserved ==
    [][ /\ req'.op = "list" => (resp'.body = books /\ books' = books)
        /\ req'.op = "create" =>
              \A i \in 1..Len(books) : books'[i] = books[i]
        /\ req'.op = "update" =>
              /\ Len(books') = Len(books)
              /\ Cardinality({i \in 1..Len(books) : books'[i] # books[i]}) <= 1
        /\ req'.op = "delete" =>
              /\ IsSubseq(books', books)
              /\ Len(books') = Cardinality({i \in 1..Len(books) : books[i].id # req'.id})
      ]_vars

\* The first seed record has been deleted and the second seed record and a
\* created one remain, in that order.
C8_Witness ==
    /\ req.op = "delete"
    /\ req.id = 1
    /\ Len(books) = 2
    /\ books[1] = Seed[2]
    /\ books[2] = SetId(Gatsby, 3)

\* C9: an update of an id that no record has answers 404 "Book not found"
\* and changes nothing; a list and a get change nothing; no request that is
\* answered 404 changes the collection.
C9_NotFoundLeavesState ==
    [][ /\ (req'.op = "update" /\ ~HasId(books, req'.id)) =>
              (resp' = NotFound /\ books' = books)
        /\ req'.op \in {"list", "get"} => books' = books
        /\ resp'.status = 404 => books' = books ]_vars

\* An update has been answered 404.
C9_Witness ==
    /\ req.op = "update"
    /\ ~HasId(books, req.id)
    /\ resp = NotFound

-----------------------------------------------------------------------------
\* C10.

DeleteRequested(id) == \E i \in 1..Len(log) : log[i].op = "delete" /\ log[i].id = id

\* Every delete so far asked for an id that no record carries.
NoEffectiveDelete == \A i \in 1..Len(log) : log[i].op = "delete" => log[i].id = 0

\* Thread t was answered 201 with a record that no request has asked to
\* delete and that is not in the collection.
LostCreate(t) ==
    /\ tresp[t].status = 201
    /\ ~DeleteRequested(tresp[t].body.id)
    /\ \A i \in 1..Len(books) : books[i] # tresp[t].body

\* C10: when the host runs one handler at a time, no record that was
\* reported created is missing unless a delete of its id was requested, and
\* as long as no delete has removed anything no two records share an id.
C10_AtomicNoLostUpdate ==
    atomic => /\ \A t \in Threads : ~LostCreate(t)
              /\ NoEffectiveDelete => UniqueIds(books)

\* With interleaved handlers both have happened: two creates read the same
\* length and stored the same id, and a create's append landed between a
\* delete's scan and its rebinding, so a record reported created is missing.
C10_LostUpdateReached ==
    /\ ~atomic
    /\ NoEffectiveDelete
    /\ ~UniqueIds(books)
    /\ \E t \in Threads : LostCreate(t)

====
